---- MODULE Spec2Model ----
(***************************************************************************)
(* One invocation of the Alexa skill endpoint api/alexa.py: handler        *)
(* receives an HTTP request, routes the Alexa envelope by request type and *)
(* intent name, and for ChatIntent asks the completion service for the     *)
(* speech text.  The invocation is followed function by function; the      *)
(* only point where it waits for somebody else is the completion call.     *)
(*                                                                         *)
(* JSON values are tagged records: null, a string, or an object (a         *)
(* function from its keys to JSON values).  Python strings are TLA+        *)
(* strings.  The body of an HTTP response is held as the dict handed to    *)
(* json.dumps.                                                             *)
(***************************************************************************)
EXTENDS Integers, Sequences, FiniteSets, TLC

VARIABLES
    request,        \* the HTTP request object given to handler
    alexa_request,  \* the parsed envelope (handler line 29)
    pc,             \* the function the invocation is in; "done" once
                    \* handler has returned, "raised" once an exception
                    \* has left it
    result,         \* what handler returned
    log,            \* the logger.error records, oldest first
    invoked,        \* the functions entered so far
    aiCalls,        \* client.chat.completions.create calls issued
    user_query,     \* argument of generate_ai_response
    user_id,        \* argument of generate_ai_response
    completion      \* what the completion call gave back

vars == <<request, alexa_request, pc, result, log, invoked, aiCalls,
          user_query, user_id, completion>>

(***************************************************************************)
(* Bounds of the model.                                                    *)
(***************************************************************************)
\* model outputs run up to this many characters past the Alexa limit
MaxOver == 2
\* up to this many blanks pad a model output on either side
MaxPad == 2

(***************************************************************************)
(* Program constants.                                                      *)
(***************************************************************************)
AlexaLimit == 8000
TruncateAt == 7900

(***************************************************************************)
(* JSON values and the Python operations on them.                          *)
(***************************************************************************)
JNull == [t |-> "null"]
JStr(s) == [t |-> "str", s |-> s]
JObj(f) == [t |-> "obj", f |-> f]
NoFields == [k \in {} |-> JNull]
EmptyDict == JObj(NoFields)
Field(k, v) == [x \in {k} |-> v]

\* the outcome of evaluating a Python expression: a value, or an exception
Ok(v) == [exc |-> "none", val |-> v]
Raise(e) == [exc |-> e, val |-> JNull]

\* Python truth value, negated: None, "" and {} are falsy
Falsy(v) ==
    CASE v.t = "null" -> TRUE
      [] v.t = "str" -> v.s = ""
      [] v.t = "obj" -> DOMAIN v.f = {}

\* v.get(k, d): only a dict has .get
DictGet(v, k, d) ==
    IF v.t # "obj" THEN Raise("AttributeError")
    ELSE Ok(IF k \in DOMAIN v.f THEN v.f[k] ELSE d)

\* v[k]: KeyError on a dict without k, TypeError on None and on a string
Subscript(v, k) ==
    IF v.t # "obj" THEN Raise("TypeError")
    ELSE IF k \in DOMAIN v.f THEN Ok(v.f[k]) ELSE Raise("KeyError")

\* x == 'literal'
EqStr(v, s) == v.t = "str" /\ v.s = s

(***************************************************************************)
(* Python strings.                                                         *)
(***************************************************************************)
\* The characters str.strip() removes (those str.isspace() accepts) that a
\* string of this module can hold: tab, line feed, vertical tab, form feed,
\* carriage return, the separators U+001C to U+001F, space, U+0085, U+00A0
\* and U+1680.  The others it removes (U+2000 to U+200A, U+2028, U+2029,
\* U+202F, U+205F, U+3000) cannot be written in a string here, so no input
\* of the model contains them.
Whitespace ==
    {" ", "\t", "\n", "\r", "\f", "", "", "", "", "",
     "", " ", " "}

RECURSIVE Rep(_, _)
Rep(s, n) ==
    IF n = 0 THEN ""
    ELSE IF n % 2 = 1 THEN s \o Rep(s, n - 1)
    ELSE LET h == Rep(s, n \div 2) IN h \o h

RECURSIVE FirstNonWs(_, _)
FirstNonWs(s, i) ==
    IF i > Len(s) THEN i
    ELSE IF SubSeq(s, i, i) \in Whitespace THEN FirstNonWs(s, i + 1) ELSE i

RECURSIVE LastNonWs(_, _, _)
LastNonWs(s, j, lo) ==
    IF j < lo THEN j
    ELSE IF SubSeq(s, j, j) \in Whitespace THEN LastNonWs(s, j - 1, lo) ELSE j

\* str.strip()
Strip(s) ==
    LET i == FirstNonWs(s, 1)
        j == LastNonWs(s, Len(s), i)
    IN  SubSeq(s, i, j)

\* lines 185-186
TruncateOffByHundred(s) ==
    IF Len(s) > AlexaLimit THEN SubSeq(s, 1, AlexaLimit) \o "..." ELSE s

Truncate(s) ==
    IF Len(s) > AlexaLimit THEN SubSeq(s, 1, TruncateAt) \o "..." ELSE s

(***************************************************************************)
(* The response builders.                                                  *)
(***************************************************************************)
PlainText(text) == [type |-> "PlainText", text |-> text]

create_error_response_ends(message) ==
    [version |-> "1.0",
     response |-> [outputSpeech |-> PlainText(message),
                   shouldEndSession |-> TRUE]]

create_error_response(message) ==
    [version |-> "1.0",
     response |-> [outputSpeech |-> PlainText(message),
                   shouldEndSession |-> FALSE]]

handle_launch_request ==
    [version |-> "1.0",
     response |-> [outputSpeech |->
                       PlainText("Hello! I'm your AI assistant. How can I help you today?"),
                   reprompt |-> [outputSpeech |->
                       PlainText("What would you like me to help you with?")],
                   shouldEndSession |-> FALSE]]

handle_help_intent ==
    [version |-> "1.0",
     response |-> [outputSpeech |->
                       PlainText("I'm your AI assistant. You can ask me questions, get information, or have a conversation. Just say what you need help with!"),
                   shouldEndSession |-> FALSE]]

handle_stop_intent_keeps_open ==
    [version |-> "1.0",
     response |-> [outputSpeech |-> PlainText("Goodbye!"),
                   shouldEndSession |-> FALSE]]

handle_stop_intent ==
    [version |-> "1.0",
     response |-> [outputSpeech |-> PlainText("Goodbye!"),
                   shouldEndSession |-> TRUE]]

handle_session_ended_request ==
    [version |-> "1.0", response |-> NoFields]

\* handle_chat_intent lines 138-147
ChatResponse(ai_response) ==
    [version |-> "1.0",
     response |-> [outputSpeech |-> PlainText(ai_response),
                   shouldEndSession |-> FALSE]]

FallbackText ==
    "I'm having trouble connecting to my knowledge base right now. Please try again in a moment."


ApologyText == "Sorry, I encountered an error. Please try again."

(***************************************************************************)
(* Exceptions that come out of the completion call.  An exception is held  *)
(* as the method resolution order of its class, the class itself first:    *)
(* `except Exception` catches it exactly when Exception is among them.     *)
(***************************************************************************)
NoExc == <<>>
ClassName(e) == e[1]
IsException(e) == \E i \in 1 .. Len(e) : e[i] = "Exception"

IndexErrorMro ==
    <<"IndexError", "LookupError", "Exception", "BaseException", "object">>
AttributeErrorMro ==
    <<"AttributeError", "Exception", "BaseException", "object">>

(***************************************************************************)
(* generate_ai_response after the completion call has come back (lines     *)
(* 182-192).  exc is the exception that leaves the function, caught the    *)
(* one its own except clause caught and logged (NoExc when there is none). *)
(***************************************************************************)
generate_ai_response_propagates(outcome) ==
    IF outcome.kind = "raise"
    THEN [exc |-> outcome.exc, caught |-> NoExc, text |-> ""]
    ELSE IF Len(outcome.choices) = 0
    THEN [exc |-> IndexErrorMro, caught |-> NoExc, text |-> ""]
    ELSE LET content == outcome.choices[1].message.content IN
         IF content.t # "str"
         THEN [exc |-> AttributeErrorMro, caught |-> NoExc, text |-> ""]
         ELSE [exc |-> NoExc, caught |-> NoExc,
               text |-> Truncate(Strip(content.s))]

generate_ai_response_result(outcome) ==
    IF outcome.kind = "raise"
    THEN IF IsException(outcome.exc)
         THEN [exc |-> NoExc, caught |-> outcome.exc, text |-> FallbackText]
         ELSE [exc |-> outcome.exc, caught |-> NoExc, text |-> ""]
    ELSE IF Len(outcome.choices) = 0
    THEN [exc |-> NoExc, caught |-> IndexErrorMro, text |-> FallbackText]
    ELSE LET content == outcome.choices[1].message.content IN
         IF content.t # "str"
         THEN [exc |-> NoExc, caught |-> AttributeErrorMro, text |-> FallbackText]
         ELSE [exc |-> NoExc, caught |-> NoExc,
               text |-> Truncate(Strip(content.s))]

(***************************************************************************)
(* The inputs: HTTP requests and what the completion call gives back.      *)
(***************************************************************************)
OptField(k, Vals) == {NoFields} \cup {Field(k, v) : v \in Vals}

Queries == {"what is the capital of France", " "}

SlotsVals ==
    {JNull, EmptyDict,
     JObj(Field("query", JNull)),
     JObj(Field("query", EmptyDict)),
     JObj(Field("query", JObj(Field("value", JNull)))),
     JObj(Field("query", JObj(Field("value", JStr("")))))}
    \cup {JObj(Field("query", JObj(Field("value", JStr(q))))) : q \in Queries}

IntentNames ==
    {JNull, JStr("ChatIntent"), JStr("AMAZON.HelpIntent"),
     JStr("AMAZON.CancelIntent"), JStr("AMAZON.StopIntent"),
     JStr("chatintent"), JStr("AMAZON.FallbackIntent")}

IntentVals ==
    {JNull} \cup
    {JObj(n @@ s) : n \in OptField("name", IntentNames),
                    s \in OptField("slots", SlotsVals)}

RequestTypes ==
    {JNull, JStr("LaunchRequest"), JStr("IntentRequest"),
     JStr("SessionEndedRequest"), JStr("launchrequest"),
     JStr("CanFulfillIntentRequest")}

RequestVals ==
    {JNull, JStr(""), JStr("LaunchRequest")} \cup
    {JObj(t @@ i) : t \in OptField("type", RequestTypes),
                    i \in OptField("intent", IntentVals)}

SessionVals ==
    {JNull, EmptyDict,
     JObj(Field("user", JNull)),
     JObj(Field("user", EmptyDict)),
     JObj(Field("user", JObj(Field("userId", JStr("amzn1.ask.account.A")))))}

Envelopes ==
    {JNull, JStr("hello")} \cup
    {JObj(r @@ s) : r \in OptField("request", RequestVals),
                    s \in OptField("session", SessionVals)}

\* a request.body text: one json.loads parses to json, or one it rejects
BodyTexts ==
    {[valid |-> FALSE, json |-> JNull]}
    \cup {[valid |-> TRUE, json |-> v] : v \in Envelopes}

Methods == {"POST", "GET"}

\* a request with a body attribute, or one with only a json attribute
Requests ==
    {[method |-> m, body |-> b] : m \in Methods, b \in BodyTexts}
    \cup {[method |-> m, json |-> JObj(r)] :
              m \in Methods, r \in OptField("request", RequestVals)}

Pads == {Rep(" ", n) : n \in 0 .. MaxPad} \cup {"\n", "", " "}

Cores ==
    {"", "Paris.", "Paris is the capital of France."}
    \cup {Rep("a", n) : n \in {TruncateAt, TruncateAt + 3}}
    \cup {Rep("a", n) : n \in (AlexaLimit - 1) .. (AlexaLimit + MaxOver)}

Contents == {l \o c \o r : l \in Pads, c \in Cores, r \in Pads}

Choice(content) == [message |-> [content |-> content]]

\* what the client can raise: its own errors, and the exceptions outside
\* Exception that can arrive while the call blocks
Raisable ==
    {<<"APIConnectionError", "APIError", "OpenAIError", "Exception",
       "BaseException", "object">>,
     <<"APITimeoutError", "APIConnectionError", "APIError", "OpenAIError",
       "Exception", "BaseException", "object">>,
     <<"AuthenticationError", "APIStatusError", "APIError", "OpenAIError",
       "Exception", "BaseException", "object">>,
     <<"RateLimitError", "APIStatusError", "APIError", "OpenAIError",
       "Exception", "BaseException", "object">>,
     <<"KeyboardInterrupt", "BaseException", "object">>,
     <<"CancelledError", "BaseException", "object">>,
     <<"BaseExceptionGroup", "BaseException", "object">>,
     <<"BaseException", "object">>}

Completions ==
    {[kind |-> "raise", exc |-> e, choices |-> <<>>] : e \in Raisable}
    \cup {[kind |-> "response", exc |-> NoExc, choices |-> <<>>]}
    \cup {[kind |-> "response", exc |-> NoExc, choices |-> <<Choice(JNull)>>]}
    \cup {[kind |-> "response", exc |-> NoExc, choices |-> <<Choice(JStr(c))>>] :
              c \in Contents}

NoCompletion == [kind |-> "none", exc |-> NoExc, choices |-> <<>>]
NoResult == [statusCode |-> 0]

(***************************************************************************)
(* The invocation.                                                         *)
(***************************************************************************)
Init ==
    /\ request \in Requests
    /\ alexa_request = JNull
    /\ pc = "handler"
    /\ result = NoResult
    /\ log = <<>>
    /\ invoked = {}
    /\ aiCalls = 0
    /\ user_query = JNull
    /\ user_id = JNull
    /\ completion = NoCompletion

\* handler line 29
ParseBody(req) ==
    IF "body" \in DOMAIN req
    THEN IF req.body.valid THEN Ok(req.body.json) ELSE Raise("JSONDecodeError")
    ELSE Ok(req.json)

\* handler lines 49-63
HandlerExceptResult ==
    [statusCode |-> 500,
     body |-> [version |-> "1.0",
               response |-> [outputSpeech |-> PlainText(ApologyText),
                             shouldEndSession |-> TRUE]]]

\* handler lines 41-47
HandlerOkResult(response) ==
    [statusCode |-> 200,
     headers |-> Field("Content-Type", "application/json"),
     body |-> response]

\* handler returns what the router gave it
Returns(response) ==
    /\ pc' = "done"
    /\ result' = HandlerOkResult(response)

\* an exception reaches handler's except clause
HandlerExcept(e) ==
    /\ pc' = "done"
    /\ result' = HandlerExceptResult
    /\ log' = Append(log, [logger |-> "handler", exc |-> e])

\* handler lines 20-39
Handler ==
    /\ pc = "handler"
    /\ invoked' = invoked \cup {"handler"}
    /\ UNCHANGED <<request, aiCalls, user_query, user_id, completion>>
    /\ IF request.method # "POST"
       THEN /\ pc' = "done"
            /\ result' = [statusCode |-> 405,
                          body |-> [error |-> "Method not allowed"]]
            /\ UNCHANGED <<alexa_request, log>>
       ELSE LET parsed == ParseBody(request) IN
            IF parsed.exc # "none"
            THEN HandlerExcept(parsed.exc) /\ UNCHANGED alexa_request
            ELSE LET req == DictGet(parsed.val, "request", JNull) IN
                 /\ alexa_request' = parsed.val
                 /\ IF req.exc # "none"
                    THEN HandlerExcept(req.exc)
                    ELSE IF Falsy(req.val)
                    THEN /\ pc' = "done"
                         /\ result' = [statusCode |-> 400,
                                       body |-> [error |-> "Invalid Alexa request"]]
                         /\ UNCHANGED log
                    ELSE /\ pc' = "process_alexa_request"
                         /\ UNCHANGED <<result, log>>

\* process_alexa_request lines 65-78
ProcessAlexaRequest ==
    /\ pc = "process_alexa_request"
    /\ invoked' = invoked \cup {"process_alexa_request"}
    /\ UNCHANGED <<request, alexa_request, aiCalls, user_query, user_id,
                   completion>>
    /\ LET req == Subscript(alexa_request, "request")
           request_type == IF req.exc # "none" THEN req
                           ELSE Subscript(req.val, "type")
       IN  IF request_type.exc # "none"
           THEN HandlerExcept(request_type.exc)
           ELSE IF EqStr(request_type.val, "LaunchRequest")
           THEN Returns(handle_launch_request) /\ UNCHANGED log
           ELSE IF EqStr(request_type.val, "IntentRequest")
           THEN pc' = "handle_intent_request" /\ UNCHANGED <<result, log>>
           ELSE IF EqStr(request_type.val, "SessionEndedRequest")
           THEN Returns(handle_session_ended_request) /\ UNCHANGED log
           ELSE Returns(create_error_response("Unknown request type"))
                /\ UNCHANGED log

\* alexa_request['request']['intent']
IntentOf(envelope) ==
    LET req == Subscript(envelope, "request") IN
    IF req.exc # "none" THEN req ELSE Subscript(req.val, "intent")

\* handle_intent_request lines 103-117
HandleIntentRequest ==
    /\ pc = "handle_intent_request"
    /\ invoked' = invoked \cup {"handle_intent_request"}
    /\ UNCHANGED <<request, alexa_request, aiCalls, user_query, user_id,
                   completion>>
    /\ LET intent == IntentOf(alexa_request)
           intent_name == IF intent.exc # "none" THEN intent
                          ELSE Subscript(intent.val, "name")
       IN  IF intent_name.exc # "none"
           THEN HandlerExcept(intent_name.exc)
           ELSE IF EqStr(intent_name.val, "ChatIntent")
           THEN pc' = "handle_chat_intent" /\ UNCHANGED <<result, log>>
           ELSE IF EqStr(intent_name.val, "AMAZON.HelpIntent")
           THEN Returns(handle_help_intent) /\ UNCHANGED log
           ELSE IF EqStr(intent_name.val, "AMAZON.CancelIntent")
                   \/ EqStr(intent_name.val, "AMAZON.StopIntent")
           THEN Returns(handle_stop_intent) /\ UNCHANGED log
           ELSE Returns(create_error_response("I didn't understand that request."))
                /\ UNCHANGED log


\* r's value .get(k, d), unless r already raised
ThenGet(r, k, d) == IF r.exc # "none" THEN r ELSE DictGet(r.val, k, d)

\* handle_chat_intent lines 125-126
ExtractQuery(envelope) ==
    LET slots == ThenGet(IntentOf(envelope), "slots", EmptyDict)
        query == ThenGet(slots, "query", EmptyDict)
    IN  ThenGet(query, "value", JStr(""))

\* handle_chat_intent lines 132-133
ExtractUserId(envelope) ==
    LET session == DictGet(envelope, "session", EmptyDict)
        user == ThenGet(session, "user", EmptyDict)
    IN  ThenGet(user, "userId", JStr("unknown"))

\* handle_chat_intent lines 149-151
ChatExcept(e) ==
    /\ Returns(create_error_response("Sorry, I had trouble processing your request."))
    /\ log' = Append(log, [logger |-> "handle_chat_intent", exc |-> e])

\* handle_chat_intent lines 119-136, up to the call of generate_ai_response
HandleChatIntent ==
    /\ pc = "handle_chat_intent"
    /\ invoked' = invoked \cup {"handle_chat_intent"}
    /\ UNCHANGED <<request, alexa_request, aiCalls, completion>>
    /\ LET query == ExtractQuery(alexa_request)
           uid == ExtractUserId(alexa_request)
       IN  IF query.exc # "none"
           THEN ChatExcept(query.exc) /\ UNCHANGED <<user_query, user_id>>
           ELSE IF Falsy(query.val)
           THEN /\ Returns(create_error_response(
                        "I didn't catch what you said. Could you repeat that?"))
                /\ UNCHANGED <<log, user_query, user_id>>
           ELSE IF uid.exc # "none"
           THEN ChatExcept(uid.exc) /\ UNCHANGED <<user_query, user_id>>
           ELSE /\ pc' = "generate_ai_response"
                /\ user_query' = query.val
                /\ user_id' = uid.val
                /\ UNCHANGED <<result, log>>

\* generate_ai_response lines 153-180: the completion request goes out, with
\* no timeout argument, and the function blocks until the client returns
GenerateAiResponse ==
    /\ pc = "generate_ai_response"
    /\ invoked' = invoked \cup {"generate_ai_response"}
    /\ aiCalls' = aiCalls + 1
    /\ pc' = "create"
    /\ UNCHANGED <<request, alexa_request, result, log, user_query, user_id,
                   completion>>

\* client.chat.completions.create comes back, with a response or an
\* exception; generate_ai_response finishes (lines 182-192),
\* handle_chat_intent wraps its text (lines 136-151), handler returns
CreateReturns ==
    /\ pc = "create"
    /\ UNCHANGED <<request, alexa_request, invoked, aiCalls, user_query,
                   user_id>>
    /\ \E outcome \in Completions :
           LET g == generate_ai_response_result(outcome)
               logged == IF g.caught = NoExc THEN log
                         ELSE Append(log, [logger |-> "generate_ai_response",
                                           exc |-> ClassName(g.caught)])
           IN  /\ completion' = outcome
               /\ IF g.exc = NoExc
                  THEN /\ Returns(ChatResponse(g.text))
                       /\ log' = logged
                  ELSE IF IsException(g.exc)
                  THEN /\ Returns(create_error_response(
                               "Sorry, I had trouble processing your request."))
                       /\ log' = Append(logged, [logger |-> "handle_chat_intent",
                                                 exc |-> ClassName(g.exc)])
                  ELSE \* neither line 149 nor line 49 catches it: the
                       \* exception leaves handler, which returns nothing
                       /\ pc' = "raised"
                       /\ log' = logged
                       /\ UNCHANGED result

Next ==
    \/ Handler
    \/ ProcessAlexaRequest
    \/ HandleIntentRequest
    \/ HandleChatIntent
    \/ GenerateAiResponse
    \/ CreateReturns

Spec == Init /\ [][Next]_vars

\* The interpreter runs the invocation's own steps one after the other; when
\* the completion service answers is not the program's to decide.
FairSpec ==
    /\ Spec
    /\ WF_vars(Handler)
    /\ WF_vars(ProcessAlexaRequest)
    /\ WF_vars(HandleIntentRequest)
    /\ WF_vars(HandleChatIntent)
    /\ WF_vars(GenerateAiResponse)


(***************************************************************************)
(* What the properties read: the input as the caller sent it and the       *)
(* response as the caller gets it.                                         *)
(***************************************************************************)
Done == pc = "done"
IsPost == request.method = "POST"
Parseable == "body" \notin DOMAIN request \/ request.body.valid
InBody == IF "body" \in DOMAIN request THEN request.body.json ELSE request.json
HasKey(v, k) == v.t = "obj" /\ k \in DOMAIN v.f

\* the caller sent an envelope with a non-empty request field
HasRequest ==
    /\ IsPost /\ Parseable /\ HasKey(InBody, "request")
    /\ LET r == InBody.f["request"] IN
       CASE r.t = "null" -> FALSE
         [] r.t = "str" -> r.s # ""
         [] r.t = "obj" -> DOMAIN r.f # {}
InRequest == InBody.f["request"]
HasType == HasRequest /\ HasKey(InRequest, "type")
TypeIs(s) ==
    HasType /\ InRequest.f["type"].t = "str" /\ InRequest.f["type"].s = s
HasIntentName ==
    /\ TypeIs("IntentRequest") /\ HasKey(InRequest, "intent")
    /\ HasKey(InRequest.f["intent"], "name")
InIntent == InRequest.f["intent"]
IntentIs(s) ==
    HasIntentName /\ InIntent.f["name"].t = "str" /\ InIntent.f["name"].s = s

\* the query slot value is empty or missing, in any of the ways a JSON
\* envelope can leave it out
QueryAbsent ==
    \/ ~HasKey(InIntent, "slots")
    \/ LET slots == InIntent.f["slots"] IN
       \/ slots.t = "null"
       \/ /\ slots.t = "obj"
          /\ \/ "query" \notin DOMAIN slots.f
             \/ LET query == slots.f["query"] IN
                \/ query.t = "null"
                \/ /\ query.t = "obj"
                   /\ \/ "value" \notin DOMAIN query.f
                      \/ query.f["value"].t = "null"
                      \/ /\ query.f["value"].t = "str"
                         /\ query.f["value"].s = ""

HasSpeech == "response" \in DOMAIN result.body
             /\ "outputSpeech" \in DOMAIN result.body.response
HasReprompt == "response" \in DOMAIN result.body
               /\ "reprompt" \in DOMAIN result.body.response
SpeechText == result.body.response.outputSpeech.text
IsErrorBody == DOMAIN result.body = {"error"}
LoggedBy(name) == \E i \in 1 .. Len(log) : log[i].logger = name

\* a speech response with the given text
SpeechBody(text, ends) ==
    [version |-> "1.0",
     response |-> [outputSpeech |-> [type |-> "PlainText", text |-> text],
                   shouldEndSession |-> ends]]

(***************************************************************************)
(* C1.  Whenever an exception reaches handler's except clause, handler     *)
(* returns status 200 with the generic apology as a speech response that   *)
(* ends the session.                                                       *)
(***************************************************************************)
C1_CatchAllIs200 ==
    (Done /\ LoggedBy("handler")) =>
        /\ result.statusCode = 200
        /\ result.body =
               SpeechBody("Sorry, I encountered an error. Please try again.", TRUE)

(***************************************************************************)
(* C2.  For every envelope with a request field the router returns a       *)
(* response with the version and response keys and raises nothing: no      *)
(* exception comes out of it into handler's except clause.                 *)
(***************************************************************************)
C2_RouterNeverRaises ==
    (Done /\ HasRequest) =>
        /\ "process_alexa_request" \in invoked
        /\ ~LoggedBy("handler")
        /\ {"version", "response"} \subseteq DOMAIN result.body

(***************************************************************************)
(* C3.  handler answers {error: ...} with a non-200 status exactly on a    *)
(* transport error: 405 for a method other than POST, 400 for a POST whose *)
(* body is unparseable or has no non-empty request field; the router is    *)
(* not invoked then, and every other answer is speech-shaped or the        *)
(* session-ended body.                                                     *)
(***************************************************************************)
C3_TransportErrors ==
    Done =>
        /\ ~IsPost =>
               /\ result.statusCode = 405
               /\ IsErrorBody
               /\ "process_alexa_request" \notin invoked
        /\ (IsPost /\ ~HasRequest) =>
               /\ result.statusCode = 400
               /\ IsErrorBody
               /\ "process_alexa_request" \notin invoked
        /\ (IsPost /\ HasRequest) =>
               /\ ~IsErrorBody
               /\ {"version", "response"} \subseteq DOMAIN result.body

(***************************************************************************)
(* C4.  A ChatIntent request whose query slot value is empty or missing    *)
(* gets the "repeat" speech response with the session kept open, and the   *)
(* completion service is not called.                                       *)
(***************************************************************************)
C4_EmptyQueryRepeats ==
    (Done /\ IntentIs("ChatIntent") /\ QueryAbsent) =>
        /\ result.body =
               SpeechBody("I didn't catch what you said. Could you repeat that?",
                          FALSE)
        /\ "generate_ai_response" \notin invoked
        /\ aiCalls = 0

(***************************************************************************)
(* C5.  When the completion call fails (the client raises a network or API *)
(* error, the response has no choices, or its content is null), the chat   *)
(* response carries the                                                    *)
(* fixed fallback sentence with the session kept open, after exactly one   *)
(* call, and no exception reaches handle_chat_intent or handler.           *)
(***************************************************************************)
CompletionFailed ==
    \/ /\ completion.kind = "raise"
       /\ \E i \in 1 .. Len(completion.exc) : completion.exc[i] = "APIError"
    \/ /\ completion.kind = "response"
       /\ \/ Len(completion.choices) = 0
          \/ completion.choices[1].message.content.t = "null"

C5_FailureFallsBack ==
    /\ aiCalls <= 1
    /\ (Done /\ CompletionFailed) =>
           /\ result.statusCode = 200
           /\ result.body =
                  SpeechBody("I'm having trouble connecting to my knowledge base right now. Please try again in a moment.",
                             FALSE)
           /\ aiCalls = 1
           /\ ~LoggedBy("handle_chat_intent")
           /\ ~LoggedBy("handler")

C5_Witness ==
    /\ Done
    /\ completion.kind = "response"
    /\ Len(completion.choices) = 1
    /\ completion.choices[1].message.content.t = "null"
    /\ aiCalls = 1
    /\ LoggedBy("generate_ai_response")

(***************************************************************************)
(* C6.  No speech text is longer than 8000 characters; the chat text is    *)
(* the stripped model output when that has at most 8000 characters, and    *)
(* otherwise its first 7900 characters followed by "...".                  *)
(***************************************************************************)
HasContent ==
    /\ completion.kind = "response"
    /\ Len(completion.choices) > 0
    /\ completion.choices[1].message.content.t = "str"
Content == completion.choices[1].message.content.s

C6_SpeechLength ==
    Done =>
        /\ HasSpeech => Len(SpeechText) <= 8000
        /\ HasReprompt =>
               Len(result.body.response.reprompt.outputSpeech.text) <= 8000
        /\ HasContent =>
               LET stripped == Strip(Content) IN
               /\ Len(stripped) <= 8000 => SpeechText = stripped
               /\ Len(stripped) > 8000 =>
                      /\ Len(SpeechText) = 7903
                      /\ SubSeq(SpeechText, 1, 7900) = SubSeq(stripped, 1, 7900)
                      /\ SubSeq(SpeechText, 7901, 7903) = "..."

C6_Witness ==
    /\ Done
    /\ HasContent
    /\ Len(Content) > 8001
    /\ Len(Strip(Content)) = 8001
    /\ Len(SpeechText) = 7903

(***************************************************************************)
(* C7.  Every speech text and reprompt text in a response is a non-empty   *)
(* string.                                                                 *)
(***************************************************************************)
C7_SpeechNonEmpty ==
    Done =>
        /\ HasSpeech => SpeechText # ""
        /\ HasReprompt => result.body.response.reprompt.outputSpeech.text # ""

(***************************************************************************)
(* C8.  The statically answered kinds get their fixed responses whatever   *)
(* else the envelope carries, and the completion service is not called:    *)
(* LaunchRequest the greeting with a reprompt and the session open,        *)
(* SessionEndedRequest the empty response, AMAZON.HelpIntent the help text *)
(* with the session open, AMAZON.CancelIntent and AMAZON.StopIntent        *)
(* "Goodbye!" with the session ended.                                      *)
(***************************************************************************)
IsStatic ==
    \/ TypeIs("LaunchRequest") \/ TypeIs("SessionEndedRequest")
    \/ IntentIs("AMAZON.HelpIntent") \/ IntentIs("AMAZON.CancelIntent")
    \/ IntentIs("AMAZON.StopIntent")

C8_StaticDispatch ==
    (Done /\ IsStatic) =>
        /\ result.statusCode = 200
        /\ aiCalls = 0
        /\ "generate_ai_response" \notin invoked
        /\ TypeIs("LaunchRequest") =>
               result.body =
                   [version |-> "1.0",
                    response |->
                        [outputSpeech |->
                             [type |-> "PlainText",
                              text |-> "Hello! I'm your AI assistant. How can I help you today?"],
                         reprompt |->
                             [outputSpeech |->
                                  [type |-> "PlainText",
                                   text |-> "What would you like me to help you with?"]],
                         shouldEndSession |-> FALSE]]
        /\ TypeIs("SessionEndedRequest") =>
               /\ DOMAIN result.body = {"version", "response"}
               /\ result.body.version = "1.0"
               /\ DOMAIN result.body.response = {}
        /\ IntentIs("AMAZON.HelpIntent") =>
               result.body =
                   SpeechBody("I'm your AI assistant. You can ask me questions, get information, or have a conversation. Just say what you need help with!",
                              FALSE)
        /\ (IntentIs("AMAZON.CancelIntent") \/ IntentIs("AMAZON.StopIntent")) =>
               result.body = SpeechBody("Goodbye!", TRUE)

C8_Witness ==
    /\ Done
    /\ IntentIs("AMAZON.CancelIntent")
    /\ HasKey(InIntent, "slots")
    /\ HasKey(InBody, "session")
    /\ result.body.response.shouldEndSession

(***************************************************************************)
(* C9.  A request whose type is none of LaunchRequest, IntentRequest and   *)
(* SessionEndedRequest gets an error speech response with the session kept *)
(* open; an IntentRequest whose intent name is none of the four known      *)
(* names, compared as exact strings, gets "I didn't understand that        *)
(* request." with the session kept open.  Both come with status 200 and    *)
(* without a call of the completion service, and so does a ChatIntent      *)
(* whose query slot value is empty or missing, whatever its text.          *)
(***************************************************************************)
UnknownType ==
    /\ HasType
    /\ ~TypeIs("LaunchRequest")
    /\ ~TypeIs("IntentRequest")
    /\ ~TypeIs("SessionEndedRequest")

UnknownIntent ==
    /\ HasIntentName
    /\ ~IntentIs("ChatIntent")
    /\ ~IntentIs("AMAZON.HelpIntent")
    /\ ~IntentIs("AMAZON.CancelIntent")
    /\ ~IntentIs("AMAZON.StopIntent")

C9_SemanticErrors ==
    Done =>
        /\ UnknownType =>
               /\ result.statusCode = 200
               /\ result.body = SpeechBody("Unknown request type", FALSE)
               /\ aiCalls = 0
        /\ UnknownIntent =>
               /\ result.statusCode = 200
               /\ result.body =
                      SpeechBody("I didn't understand that request.", FALSE)
               /\ aiCalls = 0
        /\ (IntentIs("ChatIntent") /\ QueryAbsent) =>
               /\ result.statusCode = 200
               /\ HasSpeech
               /\ ~result.body.response.shouldEndSession
               /\ aiCalls = 0

C9_Witness ==
    /\ Done
    /\ HasIntentName
    /\ InIntent.f["name"].t = "str"
    /\ InIntent.f["name"].s = "chatintent"
    /\ SpeechText = "I didn't understand that request."

(***************************************************************************)
(* C10.  Every invocation eventually ends, with a response or with an      *)
(* exception that leaves handler, even when the completion service never   *)
(* answers.                                                                *)
(***************************************************************************)
C10_AlwaysReturns == <>(pc = "done" \/ pc = "raised")

====
